---- MODULE Spec2Model ----
(***************************************************************************)
(* Model of the two command-line tools of gcp-livestream-demo:             *)
(*   createStream/main.go : ensure input, ensure channel, start, poll      *)
(*   deleteAll/main.go    : list, stop+delete every channel, delete inputs *)
(* The Live Stream API is the environment: every remote call may fail, and *)
(* every mutating call returns a long-running operation that the remote    *)
(* finishes later.  One step of the model is one remote call (or one       *)
(* block of local file/stream I/O) of the program.                         *)
(***************************************************************************)
EXTENDS Integers, Sequences, FiniteSets, TLC

\* ---------------------------------------------------------------- bounds
MaxUri == 2         \* distinct URIs the remote may assign / hold
MaxInputs == 2      \* inputs that may exist in the project/region
MaxChannels == 2    \* channels that may exist in the project/region
MaxEvents == 1      \* events the remote returns per channel

Inputs == 1..MaxInputs
Channels == 1..MaxChannels

\* ------------------------------------------------- program constants
inputID == 1        \* "livestream-input-01"
channelID == 1      \* "livestream-channel-01"
gcsoutput == 1      \* "gs://<GCP_STORAGE_BUCKET>/" + inputID

States == {"STREAMING_STATE_UNSPECIFIED", "STREAMING", "AWAITING_INPUT",
           "STREAMING_ERROR", "STREAMING_NO_INPUT", "STOPPED", "STARTING",
           "STOPPING"}

Absent == [state |-> "ABSENT", out |-> 0]

\* fmt.Sprintf("projects/%s/locations/%s/inputs/%s", ...)
InputName(id) == <<"inputs", id>>
\* fmt.Sprintf("projects/%s/locations/%s/channels/%s", ...)
ChannelName(id) == <<"channels", id>>

\* Placeholders of the channel template.
GcpOtherInfo == <<"marker", "<GCP_OTHER_INFO>">>
GcsOutput == <<"marker", "<GCS_OUTPUT>">>

\* The channel template request.json, as the token sequence that matters:
\* position 1 is inputAttachments[0].input, position 2 is output.uri.
RequestTemplate == <<GcpOtherInfo, GcsOutput>>

\* strings.ReplaceAll
ReplaceAll(s, old, new) == [i \in DOMAIN s |-> IF s[i] = old THEN new ELSE s[i]]

\* The two substitutions of createChannelIfNotExists.
RequestStr ==
    ReplaceAll(ReplaceAll(RequestTemplate, GcsOutput, <<"uri", gcsoutput>>),
               GcpOtherInfo, InputName(inputID))

NoReport == [name |-> <<>>, uri |-> 0]

\* What one call of createInputIfNotExists / createChannelIfNotExists did.
NewCall == [lookup |-> "none",      \* outcome of GetInput / GetChannel
            createReq |-> FALSE,    \* a create request was issued
            created |-> FALSE,      \* the create operation made the resource
            report |-> NoReport,    \* the snapshot that was produced
            out |-> FALSE,          \* snapshot written to w
            file |-> "none",        \* "none" | "empty" | "written"
            res |-> "none"]         \* "none" | "nil" | "err"

\* What is left of a call once main has moved on: its locals are gone.
Returned(call) == [NewCall EXCEPT !.created = call.created,
                                  !.report = call.report,
                                  !.res = call.res]

VARIABLES
    inputs,        \* remote: input id -> URI, 0 when the input does not exist
    channels,      \* remote: channel id -> [state, out]
    pending,       \* remote: long-running operations not yet finished
    flow,          \* which tool runs: "provision" | "teardown"
    pc,            \* position of the running tool
    run,           \* which run of the provisioning tool this is: "first" | "second"
    inCall,        \* this run's createInputIfNotExists call
    chCall,        \* this run's createChannelIfNotExists call
    prev,          \* the previous run's two calls
    initialState,  \* state returned by the fetch before the start decision
    currentState,  \* main's currentState
    startReqs,     \* StartChannel requests issued in this run
    iter,          \* teardown: items the open iterator has yet to return
    chans,         \* teardown: main's channels slice still to be ranged over
    evLeft,        \* teardown: events the open events iterator has yet to return
    cur,           \* teardown: resource the loop body is working on
    listed,        \* teardown: [ch, in] resources the delete loops were handed
    stopAtt,       \* teardown: channels whose StopChannel was attempted
    delChAtt,      \* teardown: channels whose DeleteChannel was attempted
    delInAtt,      \* teardown: inputs whose DeleteInput was attempted
    failed,        \* teardown: [ch, in] resources with a failed stop/delete
    infoFail,      \* teardown: which informational listing failed
    dcRes,         \* result of deleteAllChannels
    diRes          \* result of deleteAllInputs

remoteVars == <<inputs, channels, pending>>
provVars == <<run, inCall, chCall, prev, initialState, currentState, startReqs>>
tearVars == <<iter, chans, evLeft, cur, listed, stopAtt, delChAtt, delInAtt,
              failed, infoFail, dcRes, diRes>>
vars == <<inputs, channels, pending, flow, pc, run, inCall, chCall, prev,
          initialState, currentState, startReqs, iter, chans, evLeft, cur,
          listed, stopAtt, delChAtt, delInAtt, failed, infoFail, dcRes, diRes>>

Op(kind, id) == [kind |-> kind, id |-> id]

\* ------------------------------------------------------------------ Init
ProvLocalInit ==
    /\ run = "first"
    /\ inCall = NewCall
    /\ chCall = NewCall
    /\ prev = [in |-> NewCall, ch |-> NewCall]
    /\ initialState = "none"
    /\ currentState = "none"
    /\ startReqs = 0

TearLocalInit ==
    /\ iter = <<>>
    /\ chans = <<>>
    /\ evLeft = 0
    /\ cur = 0
    /\ listed = [ch |-> {}, in |-> {}]
    /\ stopAtt = {}
    /\ delChAtt = {}
    /\ delInAtt = {}
    /\ failed = [ch |-> {}, in |-> {}]
    /\ infoFail = "none"
    /\ dcRes = "none"
    /\ diRes = "none"

\* Provisioning: only the tool's own input and channel matter; each may or
\* may not exist already, the channel in any streaming state.
InitProvision ==
    /\ flow = "provision"
    /\ pc = "in_new"
    /\ \E u \in 0..MaxUri : inputs = [i \in Inputs |-> IF i = inputID THEN u ELSE 0]
    /\ \E c \in {Absent} \cup [state : States, out : 1..MaxUri] :
          channels = [k \in Channels |-> IF k = channelID THEN c ELSE Absent]

\* Teardown: the project holds the first ni inputs and the first nc channels.
InitTeardown ==
    /\ flow = "teardown"
    /\ pc = "t_new"
    /\ \E ni \in 0..MaxInputs :
          inputs = [i \in Inputs |-> IF i <= ni THEN 1 ELSE 0]
    /\ \E nc \in 0..MaxChannels :
          channels = [k \in Channels |->
                        IF k <= nc THEN [state |-> "AWAITING_INPUT", out |-> gcsoutput]
                        ELSE Absent]

Init ==
    /\ pending = {}
    /\ ProvLocalInit
    /\ TearLocalInit
    /\ (InitProvision \/ InitTeardown)

\* ============================================================ createStream
\* err == nil after GetInput / GetChannel: the only test the code makes.
LookupFound(outcome) == outcome = "ok"

\* Outcomes the remote can give a lookup of a resource.
LookupOutcomes(exists) == IF exists THEN {"ok", "other"} ELSE {"notfound", "other"}

\* createInputIfNotExists returned r to main, which logs an error and goes on.
InputReturn(call) ==
    /\ inCall' = call
    /\ pc' = "ch_new"

\* livestream.NewClient in createInputIfNotExists.
InputNewClient ==
    /\ pc = "in_new"
    /\ \/ /\ pc' = "in_get"
          /\ UNCHANGED inCall
       \/ InputReturn([inCall EXCEPT !.res = "err"])
    /\ UNCHANGED <<remoteVars, flow, run, chCall, prev, initialState,
                   currentState, startReqs, tearVars>>

\* client.GetInput and the branch on err == nil.
GetInput ==
    /\ pc = "in_get"
    /\ \E o \in LookupOutcomes(inputs[inputID] # 0) :
          /\ inCall' = [inCall EXCEPT !.lookup = o]
          /\ pc' = IF LookupFound(o) THEN "in_found" ELSE "in_create"
    /\ UNCHANGED <<remoteVars, flow, run, chCall, prev, initialState,
                   currentState, startReqs, tearVars>>

\* Found branch: marshal, write to w, create and write <inputID>.json.
InputFoundSnapshot ==
    /\ pc = "in_found"
    /\ LET rep == [name |-> InputName(inputID), uri |-> inputs[inputID]]
           c == [inCall EXCEPT !.report = rep, !.out = TRUE]
       IN  \/ InputReturn([c EXCEPT !.res = "err"])                          \* os.Create fails
           \/ InputReturn([c EXCEPT !.file = "empty", !.res = "err"])        \* Write fails
           \/ InputReturn([c EXCEPT !.file = "written", !.res = "nil"])
    /\ UNCHANGED <<remoteVars, flow, run, chCall, prev, initialState,
                   currentState, startReqs, tearVars>>

\* client.CreateInput.
CreateInput ==
    /\ pc = "in_create"
    /\ LET c == [inCall EXCEPT !.createReq = TRUE]
       IN  \/ /\ InputReturn([c EXCEPT !.res = "err"])
              /\ UNCHANGED pending
           \/ /\ inCall' = c
              /\ pending' = pending \cup {Op("CreateInput", inputID)}
              /\ pc' = "in_wait"
    /\ UNCHANGED <<inputs, channels, flow, run, chCall, prev, initialState,
                   currentState, startReqs, tearVars>>

\* op.Wait on the create operation: the remote finishes it, well or badly.
WaitCreateInput ==
    /\ pc = "in_wait"
    /\ pending' = pending \ {Op("CreateInput", inputID)}
    /\ \/ /\ inputs[inputID] = 0
          /\ \E u \in 1..MaxUri : inputs' = [inputs EXCEPT ![inputID] = u]
          /\ inCall' = [inCall EXCEPT !.created = TRUE]
          /\ pc' = "in_created"
       \/ /\ InputReturn([inCall EXCEPT !.res = "err"])
          /\ UNCHANGED inputs
    /\ UNCHANGED <<channels, flow, run, chCall, prev, initialState,
                   currentState, startReqs, tearVars>>

\* Created branch: marshal, write to w, create and write <inputID>.json.
InputCreatedSnapshot ==
    /\ pc = "in_created"
    /\ LET rep == [name |-> InputName(inputID), uri |-> inputs[inputID]]
           c == [inCall EXCEPT !.report = rep, !.out = TRUE]
       IN  \/ InputReturn([c EXCEPT !.res = "nil"])                          \* os.Create fails
           \/ InputReturn([c EXCEPT !.file = "empty", !.res = "err"])        \* Write fails
           \/ InputReturn([c EXCEPT !.file = "written", !.res = "nil"])
    /\ UNCHANGED <<remoteVars, flow, run, chCall, prev, initialState,
                   currentState, startReqs, tearVars>>

\* createChannelIfNotExists returned to main, which logs an error and goes on.
ChannelReturn(call) ==
    /\ chCall' = call
    /\ pc' = "m_new"

\* livestream.NewClient in createChannelIfNotExists.
ChannelNewClient ==
    /\ pc = "ch_new"
    /\ inCall' = Returned(inCall)
    /\ \/ /\ pc' = "ch_get"
          /\ UNCHANGED chCall
       \/ ChannelReturn([chCall EXCEPT !.res = "err"])
    /\ UNCHANGED <<remoteVars, flow, run, prev, initialState,
                   currentState, startReqs, tearVars>>

\* client.GetChannel and the branch on err == nil.
GetChannel ==
    /\ pc = "ch_get"
    /\ \E o \in LookupOutcomes(channels[channelID] # Absent) :
          /\ chCall' = [chCall EXCEPT !.lookup = o]
          /\ pc' = IF LookupFound(o) THEN "ch_found" ELSE "ch_read"
    /\ UNCHANGED <<remoteVars, flow, run, inCall, prev, initialState,
                   currentState, startReqs, tearVars>>

\* Found branch: marshal, write to w, create and write <channelID>.json.
ChannelFoundSnapshot ==
    /\ pc = "ch_found"
    /\ LET rep == [name |-> ChannelName(channelID), uri |-> channels[channelID].out]
           c == [chCall EXCEPT !.report = rep, !.out = TRUE]
       IN  \/ ChannelReturn([c EXCEPT !.res = "err"])                        \* os.Create fails
           \/ ChannelReturn([c EXCEPT !.file = "empty", !.res = "err"])      \* Write fails
           \/ ChannelReturn([c EXCEPT !.file = "written", !.res = "nil"])
    /\ UNCHANGED <<remoteVars, flow, run, inCall, prev, initialState,
                   currentState, startReqs, tearVars>>

\* os.ReadFile, the two ReplaceAll and protojson.Unmarshal.
ReadRequest ==
    /\ pc = "ch_read"
    /\ \/ /\ pc' = "ch_create"
          /\ UNCHANGED chCall
       \/ ChannelReturn([chCall EXCEPT !.res = "err"])     \* ReadFile / Unmarshal fails
    /\ UNCHANGED <<remoteVars, flow, run, inCall, prev, initialState,
                   currentState, startReqs, tearVars>>

\* client.CreateChannel.
CreateChannel ==
    /\ pc = "ch_create"
    /\ LET c == [chCall EXCEPT !.createReq = TRUE]
       IN  \/ /\ ChannelReturn([c EXCEPT !.res = "err"])
              /\ UNCHANGED pending
           \/ /\ chCall' = c
              /\ pending' = pending \cup {Op("CreateChannel", channelID)}
              /\ pc' = "ch_wait"
    /\ UNCHANGED <<inputs, channels, flow, run, inCall, prev, initialState,
                   currentState, startReqs, tearVars>>

\* op.Wait on the create operation.  The remote makes the channel only when
\* it does not exist yet and the input it attaches exists.
WaitCreateChannel ==
    /\ pc = "ch_wait"
    /\ pending' = pending \ {Op("CreateChannel", channelID)}
    /\ \/ /\ channels[channelID] = Absent
          /\ inputs[RequestStr[1][2]] # 0
          /\ channels' = [channels EXCEPT
                            ![channelID] = [state |-> "STOPPED", out |-> RequestStr[2][2]]]
          /\ chCall' = [chCall EXCEPT !.created = TRUE]
          /\ pc' = "ch_created"
       \/ /\ ChannelReturn([chCall EXCEPT !.res = "err"])
          /\ UNCHANGED channels
    /\ UNCHANGED <<inputs, flow, run, inCall, prev, initialState,
                   currentState, startReqs, tearVars>>

\* Created branch: marshal, write to w, create and write <channelID>.json.
ChannelCreatedSnapshot ==
    /\ pc = "ch_created"
    /\ LET rep == [name |-> ChannelName(channelID), uri |-> channels[channelID].out]
           c == [chCall EXCEPT !.report = rep, !.out = TRUE]
       IN  \/ ChannelReturn([c EXCEPT !.res = "nil"])                        \* os.Create fails
           \/ ChannelReturn([c EXCEPT !.file = "empty", !.res = "err"])      \* Write fails
           \/ ChannelReturn([c EXCEPT !.file = "written", !.res = "nil"])
    /\ UNCHANGED <<remoteVars, flow, run, inCall, prev, initialState,
                   currentState, startReqs, tearVars>>

\* ------------------------------------------------------- main, createStream
\* livestream.NewClient in main.
MainNewClient ==
    /\ pc = "m_new"
    /\ chCall' = Returned(chCall)
    /\ pc' \in {"m_state", "done"}
    /\ UNCHANGED <<remoteVars, flow, run, inCall, prev, initialState,
                   currentState, startReqs, tearVars>>

\* getChannelState: what one GetChannel round trip can return.
\* <<state, ok>>; STREAMING_STATE_UNSPECIFIED comes with every error.
getChannelState ==
    {<<"STREAMING_STATE_UNSPECIFIED", FALSE>>} \cup
    (IF channels[channelID] = Absent THEN {}
     ELSE {<<channels[channelID].state, TRUE>>})

\* A buggy start decision: AWAITING_INPUT is not taken as started.
ShouldStartStreamingOnly(state) == state # "STREAMING"

\* The start decision of main.
ShouldStart(state) == state # "STREAMING" /\ state # "AWAITING_INPUT"

\* The initial state fetch and the branch on it.
InitialFetch ==
    /\ pc = "m_state"
    /\ \E r \in getChannelState :
          IF r[2]
          THEN /\ currentState' = r[1]
               /\ initialState' = r[1]
               /\ pc' = IF ShouldStart(r[1]) THEN "m_start" ELSE "poll_get"
          ELSE /\ pc' = "done"
               /\ currentState' = r[1]
               /\ UNCHANGED initialState
    /\ UNCHANGED <<remoteVars, flow, run, inCall, chCall, prev, startReqs, tearVars>>

\* client.StartChannel.
StartChannel ==
    /\ pc = "m_start"
    /\ startReqs' = startReqs + 1
    /\ \/ /\ pc' = "done"
          /\ UNCHANGED pending
       \/ /\ pending' = pending \cup {Op("StartChannel", channelID)}
          /\ pc' = "m_startwait"
    /\ UNCHANGED <<inputs, channels, flow, run, inCall, chCall, prev,
                   initialState, currentState, tearVars>>

\* opStart.Wait.
WaitStartChannel ==
    /\ pc = "m_startwait"
    /\ pending' = pending \ {Op("StartChannel", channelID)}
    /\ \/ /\ channels' = [channels EXCEPT ![channelID].state = "AWAITING_INPUT"]
          /\ pc' = "poll_get"
       \/ /\ pc' = "done"
          /\ UNCHANGED channels
    /\ UNCHANGED <<inputs, flow, provVars, tearVars>>

\* A buggy loop body: a fetch error ends main.
PollGetStateReturn ==
    /\ pc = "poll_get"
    /\ \E r \in getChannelState :
          /\ currentState' = r[1]
          /\ pc' = IF r[2] THEN "poll_print" ELSE "done"
    /\ UNCHANGED <<remoteVars, flow, run, inCall, chCall, prev, initialState,
                   startReqs, tearVars>>

\* Loop body, first statement: currentState, err = getChannelState(...).
PollGetState ==
    /\ pc = "poll_get"
    /\ \E r \in getChannelState :
          /\ currentState' = r[1]
          /\ pc' = "poll_print"
    /\ UNCHANGED <<remoteVars, flow, run, inCall, chCall, prev, initialState,
                   startReqs, tearVars>>

\* printChannelState: a second fetch, logged either way.
printChannelState ==
    /\ pc = "poll_print"
    /\ \E r \in getChannelState : pc' = "poll_sleep"
    /\ UNCHANGED <<remoteVars, flow, provVars, tearVars>>

\* time.Sleep(5 * time.Second) and back to the top of the loop.
PollSleep ==
    /\ pc = "poll_sleep"
    /\ pc' = "poll_get"
    /\ UNCHANGED <<remoteVars, flow, provVars, tearVars>>

\* The operator runs the tool again after it has returned.
Rerun ==
    /\ flow = "provision"
    /\ pc = "done"
    /\ run = "first"
    /\ run' = "second"
    /\ prev' = [in |-> inCall, ch |-> chCall]
    /\ inCall' = NewCall
    /\ chCall' = NewCall
    /\ initialState' = "none"
    /\ currentState' = "none"
    /\ startReqs' = 0
    /\ pc' = "in_new"
    /\ UNCHANGED <<remoteVars, flow, tearVars>>

\* =============================================================== deleteAll
IdSeq(n) == [i \in 1..n |-> i]

\* What a listing of the inputs / channels returns, in name order.
InputsPage == SelectSeq(IdSeq(MaxInputs), LAMBDA i : inputs[i] # 0)
ChannelsPage == SelectSeq(IdSeq(MaxChannels), LAMBDA c : channels[c] # Absent)

\* livestream.NewClient in main, then listInputs opens its iterator.
TeardownNewClient ==
    /\ pc = "t_new"
    /\ \/ /\ iter' = InputsPage
          /\ pc' = "t_li_next"
       \/ /\ pc' = "done"
          /\ UNCHANGED iter
    /\ UNCHANGED <<remoteVars, flow, provVars, chans, evLeft, cur, listed,
                   stopAtt, delChAtt, delInAtt, failed, infoFail, dcRes, diRes>>

\* listInputs: one inputIterator.Next().  At iterator.Done main logs the
\* inputs and listChannels opens its iterator.
listInputs ==
    /\ pc = "t_li_next"
    /\ \/ /\ iter # <<>>
          /\ iter' = Tail(iter)
          /\ UNCHANGED <<pc, infoFail>>
       \/ /\ iter = <<>>
          /\ iter' = ChannelsPage
          /\ pc' = "t_lc_next"
          /\ UNCHANGED infoFail
       \/ /\ infoFail' = "inputs"
          /\ pc' = "done"
          /\ UNCHANGED iter
    /\ UNCHANGED <<remoteVars, flow, provVars, chans, evLeft, cur, listed,
                   stopAtt, delChAtt, delInAtt, failed, dcRes, diRes>>

\* listChannels: one channelIterator.Next().
listChannels ==
    /\ pc = "t_lc_next"
    /\ \/ /\ iter # <<>>
          /\ iter' = Tail(iter)
          /\ chans' = Append(chans, Head(iter))
          /\ UNCHANGED <<pc, infoFail>>
       \/ /\ iter = <<>>
          /\ pc' = "t_ev"
          /\ UNCHANGED <<iter, chans, infoFail>>
       \/ /\ infoFail' = "channels"
          /\ pc' = "done"
          /\ UNCHANGED <<iter, chans>>
    /\ UNCHANGED <<remoteVars, flow, provVars, evLeft, cur, listed,
                   stopAtt, delChAtt, delInAtt, failed, dcRes, diRes>>

\* for _, channel := range channels: the next channel's events iterator is
\* opened, or the loop is over and deleteAllChannels is called.
RangeChannels ==
    /\ pc = "t_ev"
    /\ \/ /\ chans # <<>>
          /\ \E n \in 0..MaxEvents : evLeft' = n
          /\ pc' = "t_ev_next"
       \/ /\ chans = <<>>
          /\ pc' = "dc_new"
          /\ UNCHANGED evLeft
    /\ UNCHANGED <<remoteVars, flow, provVars, iter, chans, cur, listed,
                   stopAtt, delChAtt, delInAtt, failed, infoFail, dcRes, diRes>>

\* A buggy listEvents caller: the error is logged and the loop goes on.
listEventsContinue ==
    /\ pc = "t_ev_next"
    /\ \/ /\ evLeft > 0
          /\ evLeft' = evLeft - 1
          /\ UNCHANGED <<pc, chans, infoFail>>
       \/ /\ evLeft = 0
          /\ chans' = Tail(chans)
          /\ pc' = "t_ev"
          /\ UNCHANGED <<evLeft, infoFail>>
       \/ /\ infoFail' = "events"
          /\ chans' = Tail(chans)
          /\ pc' = "t_ev"
          /\ UNCHANGED evLeft
    /\ UNCHANGED <<remoteVars, flow, provVars, iter, cur, listed,
                   stopAtt, delChAtt, delInAtt, failed, dcRes, diRes>>

\* listEvents: one eventIterator.Next(); an error ends main.
listEvents ==
    /\ pc = "t_ev_next"
    /\ \/ /\ evLeft > 0
          /\ evLeft' = evLeft - 1
          /\ UNCHANGED <<pc, chans, infoFail>>
       \/ /\ evLeft = 0
          /\ chans' = Tail(chans)
          /\ pc' = "t_ev"
          /\ UNCHANGED <<evLeft, infoFail>>
       \/ /\ infoFail' = "events"
          /\ pc' = "done"
          /\ UNCHANGED <<evLeft, chans>>
    /\ UNCHANGED <<remoteVars, flow, provVars, iter, cur, listed,
                   stopAtt, delChAtt, delInAtt, failed, dcRes, diRes>>

\* deleteAllChannels: NewClient and client.ListChannels.
deleteAllChannelsOpen ==
    /\ pc = "dc_new"
    /\ \/ /\ iter' = ChannelsPage
          /\ pc' = "dc_next"
          /\ UNCHANGED dcRes
       \/ /\ dcRes' = "NewClient"
          /\ pc' = "di_new"
          /\ UNCHANGED iter
    /\ UNCHANGED <<remoteVars, flow, provVars, chans, evLeft, cur, listed,
                   stopAtt, delChAtt, delInAtt, failed, infoFail, diRes>>

\* A buggy loop head: the channel is deleted without being stopped.
channelsNextNoStop ==
    /\ pc = "dc_next"
    /\ \/ /\ iter # <<>>
          /\ cur' = Head(iter)
          /\ iter' = Tail(iter)
          /\ listed' = [listed EXCEPT !.ch = @ \cup {Head(iter)}]
          /\ pc' = "dc_delete"
          /\ UNCHANGED dcRes
       \/ /\ iter = <<>>
          /\ dcRes' = "nil"
          /\ pc' = "di_new"
          /\ UNCHANGED <<iter, cur, listed>>
       \/ /\ dcRes' = "ListChannelsIterator"
          /\ pc' = "di_new"
          /\ UNCHANGED <<iter, cur, listed>>
    /\ UNCHANGED <<remoteVars, flow, provVars, chans, evLeft,
                   stopAtt, delChAtt, delInAtt, failed, infoFail, diRes>>

\* deleteAllChannels: one channelIterator.Next() at the head of the loop.
channelsNext ==
    /\ pc = "dc_next"
    /\ \/ /\ iter # <<>>
          /\ cur' = Head(iter)
          /\ iter' = Tail(iter)
          /\ listed' = [listed EXCEPT !.ch = @ \cup {Head(iter)}]
          /\ pc' = "dc_stop"
          /\ UNCHANGED dcRes
       \/ /\ iter = <<>>
          /\ dcRes' = "nil"
          /\ pc' = "di_new"
          /\ UNCHANGED <<iter, cur, listed>>
       \/ /\ dcRes' = "ListChannelsIterator"
          /\ pc' = "di_new"
          /\ UNCHANGED <<iter, cur, listed>>
    /\ UNCHANGED <<remoteVars, flow, provVars, chans, evLeft,
                   stopAtt, delChAtt, delInAtt, failed, infoFail, diRes>>

\* A buggy stopChannel caller: a failed stop skips the channel's delete.
stopChannelSkip ==
    /\ pc = "dc_stop"
    /\ stopAtt' = stopAtt \cup {cur}
    /\ \/ /\ failed' = [failed EXCEPT !.ch = @ \cup {cur}]
          /\ pc' = "dc_next"
          /\ UNCHANGED pending
       \/ /\ pending' = pending \cup {Op("StopChannel", cur)}
          /\ pc' = "dc_stopwait"
          /\ UNCHANGED failed
    /\ UNCHANGED <<inputs, channels, flow, provVars, iter, chans, evLeft, cur,
                   listed, delChAtt, delInAtt, infoFail, dcRes, diRes>>

\* stopChannel: client.StopChannel; an error is logged by the caller.
stopChannel ==
    /\ pc = "dc_stop"
    /\ stopAtt' = stopAtt \cup {cur}
    /\ \/ /\ failed' = [failed EXCEPT !.ch = @ \cup {cur}]
          /\ pc' = "dc_delete"
          /\ UNCHANGED pending
       \/ /\ pending' = pending \cup {Op("StopChannel", cur)}
          /\ pc' = "dc_stopwait"
          /\ UNCHANGED failed
    /\ UNCHANGED <<inputs, channels, flow, provVars, iter, chans, evLeft, cur,
                   listed, delChAtt, delInAtt, infoFail, dcRes, diRes>>

\* stopChannel: op.Wait on the stop operation.
stopChannelWait ==
    /\ pc = "dc_stopwait"
    /\ pending' = pending \ {Op("StopChannel", cur)}
    /\ \/ /\ channels[cur] # Absent
          /\ channels' = [channels EXCEPT ![cur].state = "STOPPED"]
          /\ UNCHANGED failed
       \/ /\ failed' = [failed EXCEPT !.ch = @ \cup {cur}]
          /\ UNCHANGED channels
    /\ pc' = "dc_delete"
    /\ UNCHANGED <<inputs, flow, provVars, iter, chans, evLeft, cur, listed,
                   stopAtt, delChAtt, delInAtt, infoFail, dcRes, diRes>>

\* client.DeleteChannel: the returned operation is dropped, not waited for.
DeleteChannel ==
    /\ pc = "dc_delete"
    /\ delChAtt' = delChAtt \cup {cur}
    /\ \/ /\ failed' = [failed EXCEPT !.ch = @ \cup {cur}]
          /\ UNCHANGED pending
       \/ /\ pending' = pending \cup {Op("DeleteChannel", cur)}
          /\ UNCHANGED failed
    /\ pc' = "dc_next"
    /\ UNCHANGED <<inputs, channels, flow, provVars, iter, chans, evLeft, cur,
                   listed, stopAtt, delInAtt, infoFail, dcRes, diRes>>

\* deleteAllInputs: NewClient and client.ListInputs.
deleteAllInputsOpen ==
    /\ pc = "di_new"
    /\ \/ /\ iter' = InputsPage
          /\ pc' = "di_next"
          /\ UNCHANGED diRes
       \/ /\ diRes' = "NewClient"
          /\ pc' = "done"
          /\ UNCHANGED iter
    /\ UNCHANGED <<remoteVars, flow, provVars, chans, evLeft, cur, listed,
                   stopAtt, delChAtt, delInAtt, failed, infoFail, dcRes>>

\* deleteAllInputs: one inputIterator.Next() at the head of the loop.
inputsNext ==
    /\ pc = "di_next"
    /\ \/ /\ iter # <<>>
          /\ cur' = Head(iter)
          /\ iter' = Tail(iter)
          /\ listed' = [listed EXCEPT !.in = @ \cup {Head(iter)}]
          /\ pc' = "di_delete"
          /\ UNCHANGED diRes
       \/ /\ iter = <<>>
          /\ diRes' = "nil"
          /\ pc' = "done"
          /\ UNCHANGED <<iter, cur, listed>>
       \/ /\ diRes' = "ListInputsIterator"
          /\ pc' = "done"
          /\ UNCHANGED <<iter, cur, listed>>
    /\ UNCHANGED <<remoteVars, flow, provVars, chans, evLeft,
                   stopAtt, delChAtt, delInAtt, failed, infoFail, dcRes>>

\* client.DeleteInput: the returned operation is dropped, not waited for.
DeleteInput ==
    /\ pc = "di_delete"
    /\ delInAtt' = delInAtt \cup {cur}
    /\ \/ /\ failed' = [failed EXCEPT !.in = @ \cup {cur}]
          /\ UNCHANGED pending
       \/ /\ pending' = pending \cup {Op("DeleteInput", cur)}
          /\ UNCHANGED failed
    /\ pc' = "di_next"
    /\ UNCHANGED <<inputs, channels, flow, provVars, iter, chans, evLeft, cur,
                   listed, stopAtt, delChAtt, infoFail, dcRes, diRes>>

\* The remote finishes a delete operation nobody waits for: the resource
\* goes away, or the operation fails and it stays.
RemoteFinishDelete ==
    /\ \E op \in pending :
          /\ op.kind \in {"DeleteChannel", "DeleteInput"}
          /\ pending' = pending \ {op}
          /\ \/ /\ op.kind = "DeleteChannel"
                /\ channels' = [channels EXCEPT ![op.id] = Absent]
                /\ UNCHANGED inputs
             \/ /\ op.kind = "DeleteInput"
                /\ inputs' = [inputs EXCEPT ![op.id] = 0]
                /\ UNCHANGED channels
             \/ UNCHANGED <<inputs, channels>>
    /\ UNCHANGED <<flow, pc, provVars, tearVars>>

\* ------------------------------------------------------------------ Next
ProvisionRun ==
    \/ InputNewClient
    \/ GetInput
    \/ InputFoundSnapshot
    \/ CreateInput
    \/ WaitCreateInput
    \/ InputCreatedSnapshot
    \/ ChannelNewClient
    \/ GetChannel
    \/ ChannelFoundSnapshot
    \/ ReadRequest
    \/ CreateChannel
    \/ WaitCreateChannel
    \/ ChannelCreatedSnapshot
    \/ MainNewClient
    \/ InitialFetch
    \/ StartChannel
    \/ WaitStartChannel
    \/ PollGetState
    \/ printChannelState
    \/ PollSleep

TeardownRun ==
    \/ TeardownNewClient
    \/ listInputs
    \/ listChannels
    \/ RangeChannels
    \/ listEvents
    \/ deleteAllChannelsOpen
    \/ channelsNext
    \/ stopChannel
    \/ stopChannelWait
    \/ DeleteChannel
    \/ deleteAllInputsOpen
    \/ inputsNext
    \/ DeleteInput
    \/ RemoteFinishDelete

Next == ProvisionRun \/ Rerun \/ TeardownRun

Spec == Init /\ [][Next]_vars

\* One run of the provisioning tool.  Every call of the polling loop
\* returns and the sleep ends, so each loop step that can be taken is taken.
ProvisionInit ==
    /\ pending = {}
    /\ ProvLocalInit
    /\ TearLocalInit
    /\ InitProvision

FairSpec ==
    /\ ProvisionInit
    /\ [][ProvisionRun]_vars
    /\ WF_vars(PollGetState)
    /\ WF_vars(printChannelState)
    /\ WF_vars(PollSleep)

\* ================================================================= claims
InLoop == pc \in {"poll_get", "poll_print", "poll_sleep"}
Started == {"STREAMING", "AWAITING_INPUT"}

\* C1: when the first call of createInputIfNotExists (createChannelIfNotExists)
\* created the resource, the second call with the same id issues no create
\* request and, when it succeeds, reports the same name and uri.
C1_Idempotent ==
    run = "second" =>
       /\ prev.in.created =>
             /\ ~inCall.createReq
             /\ inCall.res = "nil" => inCall.report = prev.in.report
       /\ prev.ch.created =>
             /\ ~chCall.createReq
             /\ chCall.res = "nil" => chCall.report = prev.ch.report

\* C2: a create request is issued only after a lookup that failed with
\* "not found"; after any other lookup failure the call returns an error.
C2_CreateOnlyAfterNotFound ==
    /\ inCall.createReq => inCall.lookup = "notfound"
    /\ chCall.createReq => chCall.lookup = "notfound"
    /\ (inCall.lookup = "other" /\ pc = "ch_new") => inCall.res = "err"
    /\ (chCall.lookup = "other" /\ pc = "m_new") => chCall.res = "err"

\* C3: a channel's StopChannel is attempted before its DeleteChannel, and
\* every DeleteChannel of the run is attempted before any DeleteInput.
C3_TeardownOrder ==
    [][/\ \A c \in delChAtt' \ delChAtt : c \in stopAtt
       /\ delInAtt # {} => delChAtt' = delChAtt
       /\ delInAtt' # delInAtt => delChAtt' = delChAtt]_vars

C3_Witness ==
    /\ pc = "done"
    /\ Cardinality(delChAtt) >= 2
    /\ stopAtt = delChAtt
    /\ delInAtt # {}

C5_StartSkip ==
    /\ startReqs <= 1
    /\ initialState \in Started \cup {"none"} => startReqs = 0
    /\ (initialState \notin Started \cup {"none"} /\ pc # "m_start") => startReqs = 1
    /\ InLoop => Op("StartChannel", channelID) \notin pending

C5_Witness ==
    /\ pc = "poll_get"
    /\ initialState = "STOPPED"
    /\ startReqs = 1

\* C6: when createInputIfNotExists fails, the run issues no channel lookup,
\* no CreateChannel and no StartChannel; CreateChannel is issued only when
\* the input it references exists.
C6_FailFast ==
    /\ inCall.res = "err" =>
          /\ chCall.lookup = "none"
          /\ ~chCall.createReq
          /\ startReqs = 0
    /\ chCall.createReq => inputs[inputID] # 0

\* Steps in which the program issues a remote request.
IssuesRequest ==
    \/ GetInput \/ CreateInput \/ GetChannel \/ CreateChannel
    \/ InitialFetch \/ StartChannel \/ PollGetState \/ printChannelState
    \/ (TeardownNewClient /\ pc' = "t_li_next")
    \/ (listInputs /\ pc' = "t_lc_next")
    \/ (RangeChannels /\ pc' = "t_ev_next")
    \/ (deleteAllChannelsOpen /\ pc' = "dc_next")
    \/ stopChannel \/ DeleteChannel
    \/ (deleteAllInputsOpen /\ pc' = "di_next")
    \/ DeleteInput

\* C7: no remote request is issued while the long-running operation of an
\* earlier create, start, stop or delete request is still pending.
C7_Sequential == [][IssuesRequest => pending = {}]_vars

\* C8: once in the polling loop the program stays in it, and whatever the
\* fetches return the state keeps being fetched.
C8_PollForever ==
    /\ [][InLoop => InLoop']_vars
    /\ [](InLoop => <>(pc = "poll_get"))
    /\ [](InLoop => <>(pc = "poll_print"))

C8_Witness ==
    /\ pc = "poll_sleep"
    /\ currentState = "STREAMING_STATE_UNSPECIFIED"
    /\ channels[channelID].state = "AWAITING_INPUT"

\* C9: a call that returns success has written the snapshot to the output
\* stream and to the file, in the found and in the created branch.
C9_SnapshotWritten ==
    /\ (pc = "ch_new" /\ inCall.res = "nil") =>
          (inCall.out /\ inCall.file = "written")
    /\ (pc = "m_new" /\ chCall.res = "nil") =>
          (chCall.out /\ chCall.file = "written")

\* C10: when listInputs, listChannels or listEvents fails, the run ends with
\* no StopChannel, DeleteChannel or DeleteInput request; such requests are
\* issued only after all listings succeeded for every channel.
C10_ListingsGate ==
    /\ infoFail # "none" =>
          /\ pc = "done"
          /\ stopAtt = {} /\ delChAtt = {} /\ delInAtt = {}
    /\ (stopAtt # {} \/ delChAtt # {} \/ delInAtt # {}) =>
          /\ infoFail = "none"
          /\ chans = <<>>

C10_Witness ==
    /\ infoFail = "events"
    /\ pc = "done"
    /\ channels[1] # Absent
    /\ inputs[1] # 0
====
